---------------------------- MODULE Spec2Model ----------------------------
(***************************************************************************)
(* flake8-annotations: the Function/Argument model builder (models.py)     *)
(* and the emission pass TypeHintChecker.run with its classifiers          *)
(* (checker.py), as a state machine over one parsed file.                  *)
(*                                                                         *)
(* A name is a sequence of one-character strings, so that startswith and   *)
(* endswith are computed and not looked up.  An absent name (Python None)  *)
(* is the empty sequence: no identifier is empty.                          *)
(***************************************************************************)
EXTENDS Integers, Sequences, FiniteSets, TLC

VARIABLES
    tree,                   \* the FunctionDef nodes of the file, in source order
    config,                 \* the options flake8 set on the checker
    function_definitions,   \* visitor.function_definitions
    idx,                    \* 0 before run() starts, then the loop's position
    last_overload_decorated_function_name,
    errors,                 \* the diagnostics run() has yielded so far
    path,                   \* per processed function, the branch its iteration took
    probe,                  \* classify_error's input (directly constructed Function)
    classified,             \* classify_error's result for the probe
    finished,               \* the runs of this flake8 invocation that are over
    matched                 \* _decorator_checker's result for the probe

vars == <<tree, config, function_definitions, idx,
          last_overload_decorated_function_name, errors, path, probe, classified,
          finished, matched>>

-----------------------------------------------------------------------------
(* Bounds of the model *)

MaxSeries == 3          \* functions per file, plain nodes
MaxPair == 2            \* functions per file, nodes with mixed annotation styles
MaxStyleParams == 2     \* parameters of a function whose styles vary
MaxHints == 2           \* hint slots of a function-level type comment
MaxSuppressParams == 2  \* parameters of a function under the suppress options
MaxProbeParams == 2     \* parameters of a directly constructed Function
MaxRerun == 2           \* functions of a file that is run more than once
MaxOther == 1           \* functions of a file run in between
MaxDecoratorDepth == 3  \* nesting of a decorator expression

-----------------------------------------------------------------------------
(* Plain data *)

None == <<>>

NoDecoratorType == "None"

RECURSIVE Flatten(_)
Flatten(ss) == IF ss = <<>> THEN <<>> ELSE Head(ss) \o Flatten(Tail(ss))

\* enums.AnnotationType / FunctionType / ClassDecoratorType members
AnnotationTypes == {"POSONLYARGS", "ARGS", "VARARG", "KWONLYARGS", "KWARG", "RETURN"}

FunctionTypes == {"PUBLIC", "PROTECTED", "PRIVATE", "SPECIAL"}

ClassDecoratorTypes == {"CLASSMETHOD", "STATICMETHOD"}

\* the order in which from_function_node walks node.args
AST_ARG_TYPES == <<"posonlyargs", "args", "vararg", "kwonlyargs", "kwarg">>

\* arg_type.upper()
Upper(arg_type) ==
    CASE arg_type = "posonlyargs" -> "POSONLYARGS"
      [] arg_type = "args" -> "ARGS"
      [] arg_type = "vararg" -> "VARARG"
      [] arg_type = "kwonlyargs" -> "KWONLYARGS"
      [] arg_type = "kwarg" -> "KWARG"

\* Decorator expressions: ast.Name, ast.Attribute, ast.Call, anything else
Name(id) == [kind |-> "Name", id |-> id]

Attribute(value, attr) == [kind |-> "Attribute", value |-> value, attr |-> attr]

Call(func) == [kind |-> "Call", func |-> func]

Subscript == [kind |-> "Subscript"]

-----------------------------------------------------------------------------
(* models.py: Argument *)

Argument(argname, annotation_type) ==
    [argname |-> argname,
     annotation_type |-> annotation_type,
     has_type_annotation |-> FALSE,
     has_3107_annotation |-> FALSE,
     has_type_comment |-> FALSE]

from_arg_node(node, annotation_type_name) ==
    LET new_arg == Argument(node.arg, annotation_type_name)
        a1 == IF node.annotation
              THEN [new_arg EXCEPT !.has_type_annotation = TRUE,
                                   !.has_3107_annotation = TRUE]
              ELSE new_arg
    IN  IF node.type_comment
        THEN [a1 EXCEPT !.has_type_annotation = TRUE, !.has_type_comment = TRUE]
        ELSE a1

-----------------------------------------------------------------------------
(* models.py: Function *)

startswith(s, n) == Len(s) >= n /\ \A i \in 1..n : s[i] = "_"

endswith(s, n) == Len(s) >= n /\ \A i \in (Len(s) - n + 1)..Len(s) : s[i] = "_"

get_function_type(function_name) ==
    IF startswith(function_name, 2) /\ endswith(function_name, 2) THEN "SPECIAL"
    ELSE IF startswith(function_name, 2) THEN "PRIVATE"
    ELSE IF startswith(function_name, 1) THEN "PROTECTED"
    ELSE "PUBLIC"

\* faulty variant: the last attribute of an attribute access counts as well
get_class_decorator_type_Attributes(function_node) ==
    LET list == function_node.decorator_list
        decorators == {list[i].id : i \in {j \in DOMAIN list : list[j].kind = "Name"}}
                      \cup {list[i].attr :
                               i \in {j \in DOMAIN list : list[j].kind = "Attribute"}}
    IN  IF "classmethod" \in decorators THEN "CLASSMETHOD"
        ELSE IF "staticmethod" \in decorators THEN "STATICMETHOD"
        ELSE NoDecoratorType

get_class_decorator_type(function_node) ==
    LET decorators == {function_node.decorator_list[i].id :
                          i \in {j \in DOMAIN function_node.decorator_list :
                                    function_node.decorator_list[j].kind = "Name"}}
    IN  IF "classmethod" \in decorators THEN "CLASSMETHOD"
        ELSE IF "staticmethod" \in decorators THEN "STATICMETHOD"
        ELSE NoDecoratorType

\* Function.__init__ (lineno and col_offset locate the diagnostic and are omitted)
Function(name, function_type, is_class_method, class_decorator_type, is_return_annotated, has_type_comment, has_only_none_returns, is_nested, decorator_list, args) ==
    [name |-> name,
     function_type |-> function_type,
     is_class_method |-> is_class_method,
     class_decorator_type |-> class_decorator_type,
     is_return_annotated |-> is_return_annotated,
     has_type_comment |-> has_type_comment,
     has_only_none_returns |-> has_only_none_returns,
     is_nested |-> is_nested,
     decorator_list |-> decorator_list,
     args |-> args]

is_fully_annotated(f) == \A i \in DOMAIN f.args : f.args[i].has_type_annotation

is_dynamically_typed(f) == ~ \E i \in DOMAIN f.args : f.args[i].has_type_annotation

Indices(s) == [i \in 1..Len(s) |-> i]

\* The two getters return the Argument objects themselves; an object is its
\* index in f.args here, since Argument defines no __eq__ (identity compares).
get_missed_annotations(f) ==
    SelectSeq(Indices(f.args), LAMBDA i : ~f.args[i].has_type_annotation)

get_annotated_arguments(f) ==
    SelectSeq(Indices(f.args), LAMBDA i : f.args[i].has_type_annotation)

\* faulty variant: the called expression of a call is inspected, not recursed into
_decorator_checker_OneCall(decorator, check_decorators) ==
    LET matches(d) ==
            IF d.kind = "Name" THEN d.id \in check_decorators
            ELSE IF d.kind = "Attribute" THEN d.attr \in check_decorators
            ELSE FALSE
    IN  IF decorator.kind = "Call" THEN matches(decorator.func)
        ELSE matches(decorator)

RECURSIVE _decorator_checker(_, _)
_decorator_checker(decorator, check_decorators) ==
    IF decorator.kind = "Name" THEN decorator.id \in check_decorators
    ELSE IF decorator.kind = "Attribute" THEN decorator.attr \in check_decorators
    ELSE IF decorator.kind = "Call"
         THEN _decorator_checker(decorator.func, check_decorators)
    ELSE FALSE

\* faulty variant: every decorator of the list is inspected
has_decorator_Any(f, check_decorators) ==
    \E i \in DOMAIN f.decorator_list :
        _decorator_checker(f.decorator_list[i], check_decorators)

has_decorator(f, check_decorators) ==
    IF f.decorator_list # <<>>
    THEN _decorator_checker(f.decorator_list[1], check_decorators)
    ELSE FALSE

\* a hint slot of a parsed function-level type comment
Hint == "hint"

Ellipsis == "Ellipsis"

\* faulty variant: no placeholder is injected for the receiver
_maybe_inject_class_argument_Never(argtypes, func_obj) == argtypes

_maybe_inject_class_argument(argtypes, func_obj) ==
    IF ~func_obj.is_class_method THEN argtypes
    ELSE IF func_obj.class_decorator_type # "STATICMETHOD"
            /\ Len(argtypes) < Len(func_obj.args) - 1
         THEN <<Ellipsis>> \o argtypes
    ELSE argtypes

\* faulty variant: a hinted argument is not flagged as carrying a type comment
try_type_comment_AnnotationOnly(func_obj, node) ==
    LET argtypes == _maybe_inject_class_argument(node.type_comment.argtypes, func_obj)
        zipped == [i \in 1..Len(func_obj.args) |->
                      IF i <= Len(argtypes) /\ argtypes[i] # Ellipsis
                      THEN [func_obj.args[i] EXCEPT !.has_type_annotation = TRUE]
                      ELSE func_obj.args[i]]
        last == Len(zipped)
    IN  [func_obj EXCEPT
            !.args = [zipped EXCEPT ![last] =
                         [zipped[last] EXCEPT !.has_type_annotation = TRUE,
                                              !.has_type_comment = TRUE]],
            !.is_return_annotated = TRUE]

\* faulty variant: an Ellipsis slot is taken for a hint
try_type_comment_EllipsisCounts(func_obj, node) ==
    LET argtypes == _maybe_inject_class_argument(node.type_comment.argtypes, func_obj)
        zipped == [i \in 1..Len(func_obj.args) |->
                      IF i <= Len(argtypes)
                      THEN [func_obj.args[i] EXCEPT !.has_type_annotation = TRUE,
                                                    !.has_type_comment = TRUE]
                      ELSE func_obj.args[i]]
        last == Len(zipped)
    IN  [func_obj EXCEPT
            !.args = [zipped EXCEPT ![last] =
                         [zipped[last] EXCEPT !.has_type_annotation = TRUE,
                                              !.has_type_comment = TRUE]],
            !.is_return_annotated = TRUE]

try_type_comment(func_obj, node) ==
    LET argtypes == _maybe_inject_class_argument(node.type_comment.argtypes, func_obj)
        \* zip_longest pads the shorter side with None
        zipped == [i \in 1..Len(func_obj.args) |->
                      IF i <= Len(argtypes) /\ argtypes[i] # Ellipsis
                      THEN [func_obj.args[i] EXCEPT !.has_type_annotation = TRUE,
                                                    !.has_type_comment = TRUE]
                      ELSE func_obj.args[i]]
        last == Len(zipped)
    IN  [func_obj EXCEPT
            !.args = [zipped EXCEPT ![last] =
                         [zipped[last] EXCEPT !.has_type_annotation = TRUE,
                                              !.has_type_comment = TRUE]],
            !.is_return_annotated = TRUE]

\* node.args.__getattribute__(arg_type), as a list (a single vararg/kwarg is wrapped)
ArgNodes(node, arg_type) ==
    CASE arg_type = "posonlyargs" -> node.args.posonlyargs
      [] arg_type = "args" -> node.args.args
      [] arg_type = "vararg" -> node.args.vararg
      [] arg_type = "kwonlyargs" -> node.args.kwonlyargs
      [] arg_type = "kwarg" -> node.args.kwarg

from_function_node(node) ==
    LET function_type == get_function_type(node.name)
        class_decorator_type ==
            IF node.is_class_method THEN get_class_decorator_type(node)
            ELSE NoDecoratorType
        params == Flatten([k \in DOMAIN AST_ARG_TYPES |->
                     LET nodes == ArgNodes(node, AST_ARG_TYPES[k])
                     IN  [i \in DOMAIN nodes |->
                             from_arg_node(nodes[i], Upper(AST_ARG_TYPES[k]))]])
        return_arg == [Argument("return", "RETURN") EXCEPT
                          !.has_type_annotation = node.returns,
                          !.has_3107_annotation = node.returns]
        new_function ==
            Function(node.name, function_type, node.is_class_method,
                     class_decorator_type, node.returns, node.type_comment.present,
                     node.has_only_none_returns, node.is_nested, node.decorator_list,
                     Append(params, return_arg))
    IN  IF node.type_comment.present
        THEN try_type_comment(new_function, node)
        ELSE new_function

-----------------------------------------------------------------------------
(* checker.py: the classifiers *)

\* faulty variant: the decorator type is consulted whether or not this is a method
_return_error_classifier_AnyFunction(is_class_method, class_decorator_type, function_type) ==
    IF class_decorator_type = "CLASSMETHOD" THEN "ANN206"
    ELSE IF class_decorator_type = "STATICMETHOD" THEN "ANN205"
    ELSE IF function_type = "SPECIAL" THEN "ANN204"
    ELSE IF function_type = "PRIVATE" THEN "ANN203"
    ELSE IF function_type = "PROTECTED" THEN "ANN202"
    ELSE "ANN201"

_return_error_classifier(is_class_method, class_decorator_type, function_type) ==
    IF is_class_method /\ class_decorator_type = "CLASSMETHOD" THEN "ANN206"
    ELSE IF is_class_method /\ class_decorator_type = "STATICMETHOD" THEN "ANN205"
    ELSE IF function_type = "SPECIAL" THEN "ANN204"
    ELSE IF function_type = "PRIVATE" THEN "ANN203"
    ELSE IF function_type = "PROTECTED" THEN "ANN202"
    ELSE "ANN201"

\* faulty variant: the first argument of a staticmethod is taken for a receiver
_argument_error_classifier_Static(is_class_method, is_first_arg, class_decorator_type, annotation_type) ==
    IF is_class_method /\ is_first_arg /\ class_decorator_type = "CLASSMETHOD"
    THEN "ANN102"
    ELSE IF is_class_method /\ is_first_arg
    THEN "ANN101"
    ELSE IF annotation_type = "KWARG" THEN "ANN003"
    ELSE IF annotation_type = "VARARG" THEN "ANN002"
    ELSE "ANN001"

_argument_error_classifier(is_class_method, is_first_arg, class_decorator_type, annotation_type) ==
    IF is_class_method /\ is_first_arg /\ class_decorator_type = "CLASSMETHOD"
    THEN "ANN102"
    ELSE IF is_class_method /\ is_first_arg /\ class_decorator_type # "STATICMETHOD"
    THEN "ANN101"
    ELSE IF annotation_type = "KWARG" THEN "ANN003"
    ELSE IF annotation_type = "VARARG" THEN "ANN002"
    ELSE "ANN001"

\* arg is the index in function.args of the Argument passed
classify_error(function, arg) ==
    IF function.args[arg].argname = "return"
    THEN _return_error_classifier(function.is_class_method,
                                  function.class_decorator_type,
                                  function.function_type)
    ELSE LET is_first_arg == (arg = 1)
         IN  _argument_error_classifier(function.is_class_method, is_first_arg,
                                        function.class_decorator_type,
                                        function.args[arg].annotation_type)

-----------------------------------------------------------------------------
(* checker.py: TypeHintChecker.run, one loop iteration *)

__init__ == <<"_", "_", "i", "n", "i", "t", "_", "_">>

\* A yielded diagnostic: its code, the function it is bound to (position in
\* function_definitions) and the position in function.args (0: the function).
Error(code, k, arg) == [code |-> code, fn |-> k, arg |-> arg]

\* faulty variant: the nested rule is not under the dynamically-typed test
SkipsUntyped_NestedAny(function, cfg) ==
    \/ is_dynamically_typed(function) /\ cfg.allow_untyped_defs
    \/ function.is_nested /\ cfg.allow_untyped_nested

\* lines 76-82
SkipsUntyped(function, cfg) ==
    is_dynamically_typed(function)
    /\ (cfg.allow_untyped_defs \/ (function.is_nested /\ cfg.allow_untyped_nested))

\* lines 86-87
SkipsDispatch(function, cfg) == has_decorator(function, cfg.dispatch_decorators)

\* lines 89-109: the sentinels after the annotated arguments up to position n
\* of the scan, and whether the scan has yielded ANN301 by then
RECURSIVE MixedSentinels(_, _, _)
MixedSentinels(function, annotated, n) ==
    IF n = 0
    THEN [has_type_comment |-> function.has_type_comment,
          has_3107_annotation |-> FALSE,
          yielded |-> FALSE]
    ELSE LET before == MixedSentinels(function, annotated, n - 1)
             arg == function.args[annotated[n]]
             tc == before.has_type_comment \/ arg.has_type_comment
             pep == before.has_3107_annotation \/ arg.has_3107_annotation
         IN  IF before.yielded THEN before    \* break
             ELSE [has_type_comment |-> tc,
                   has_3107_annotation |-> pep,
                   yielded |-> tc /\ pep]

\* faulty variant: the scan lacks its break: one ANN301 per annotated argument from
\* the first mixed one on
MixedErrors_NoBreak(function, k) ==
    LET annotated == get_annotated_arguments(function)
        mixed == SelectSeq(Indices(annotated), LAMBDA n :
                    /\ \/ function.has_type_comment
                       \/ \E m \in 1..n : function.args[annotated[m]].has_type_comment
                    /\ \E m \in 1..n : function.args[annotated[m]].has_3107_annotation)
    IN  [n \in DOMAIN mixed |-> Error("ANN301", k, 0)]

MixedErrors(function, k) ==
    LET annotated == get_annotated_arguments(function)
    IN  IF MixedSentinels(function, annotated, Len(annotated)).yielded
        THEN <<Error("ANN301", k, 0)>>
        ELSE <<>>

\* faulty variant: a pending name closes only a function that is not itself overload
\* decorated
ClosesOverload_Undecorated(function, pending) ==
    pending = function.name /\ function.decorator_list = <<>>

\* lines 113-114
ClosesOverload(function, pending) == pending = function.name

\* faulty variant: the overload step consults the dispatch decorators
NextOverloadName_DispatchSet(function, cfg, pending) ==
    IF has_decorator(function, cfg.dispatch_decorators) THEN function.name
    ELSE pending

\* lines 117-118
NextOverloadName(function, cfg, pending) ==
    IF has_decorator(function, cfg.overload_decorators) THEN function.name
    ELSE pending

\* faulty variant: __init__ needs no annotated argument for its return to be excused
ReturnSuppressed_AnyInit(function, arg, cfg) ==
    \/ /\ cfg.suppress_none_returning
       /\ ~function.args[arg].has_type_annotation
       /\ function.has_only_none_returns
    \/ /\ cfg.mypy_init_return
       /\ function.is_class_method
       /\ function.name = __init__

\* faulty variant: the none-returning rule does not look at the returns
ReturnSuppressed_AnyReturns(function, arg, cfg) ==
    \/ /\ cfg.suppress_none_returning
       /\ ~function.args[arg].has_type_annotation
    \/ /\ cfg.mypy_init_return
       /\ function.is_class_method
       /\ function.name = __init__
       /\ get_annotated_arguments(function) # <<>>

\* lines 122-136: the return slot's short circuits
ReturnSuppressed(function, arg, cfg) ==
    \/ /\ cfg.suppress_none_returning
       /\ ~function.args[arg].has_type_annotation
       /\ function.has_only_none_returns
    \/ /\ cfg.mypy_init_return
       /\ function.is_class_method
       /\ function.name = __init__
       /\ get_annotated_arguments(function) # <<>>

\* faulty variant: only an ordinary argument named _ is a dummy
DummySuppressed_ArgsOnly(function, arg, cfg) ==
    /\ function.args[arg].argname = "_"
    /\ function.args[arg].annotation_type = "ARGS"
    /\ cfg.suppress_dummy_args

\* lines 138-141
DummySuppressed(function, arg, cfg) ==
    function.args[arg].argname = "_" /\ cfg.suppress_dummy_args

\* lines 121-143: whether the missed argument at position arg is yielded
YieldsMissing(function, arg, cfg) ==
    /\ ~(function.args[arg].argname = "return" /\ ReturnSuppressed(function, arg, cfg))
    /\ ~DummySuppressed(function, arg, cfg)

MissingErrors(function, k, cfg) ==
    LET yielded == SelectSeq(get_missed_annotations(function),
                             LAMBDA arg : YieldsMissing(function, arg, cfg))
    IN  [n \in DOMAIN yielded |->
            Error(classify_error(function, yielded[n]), k, yielded[n])]

-----------------------------------------------------------------------------
(* The files and configurations explored *)

\* Sequences over S of length 0..n
RECURSIVE SeqsUpTo(_, _)
SeqsUpTo(S, n) ==
    IF n = 0 THEN {<<>>}
    ELSE LET shorter == SeqsUpTo(S, n - 1)
         IN  shorter \cup {Append(q, x) : q \in {r \in shorter : Len(r) = n - 1}, x \in S}

\* one ast.arg of the given kind (the ast.arguments field that holds it)
Param(arg, kind, annotation, type_comment) ==
    [arg |-> arg, kind |-> kind, annotation |-> annotation, type_comment |-> type_comment]

ArgNode(p) == [arg |-> p.arg, annotation |-> p.annotation, type_comment |-> p.type_comment]

OfKind(params, kind) ==
    LET sel == SelectSeq(params, LAMBDA p : p.kind = kind)
    IN  [i \in DOMAIN sel |-> ArgNode(sel[i])]

\* ast.arguments holding the given parameters
arguments(params) ==
    [posonlyargs |-> OfKind(params, "posonlyargs"),
     args |-> OfKind(params, "args"),
     vararg |-> OfKind(params, "vararg"),
     kwonlyargs |-> OfKind(params, "kwonlyargs"),
     kwarg |-> OfKind(params, "kwarg")]

\* Python rejects a signature with a repeated name, two *args or two **kwargs
ValidParams(params) ==
    /\ \A i, j \in DOMAIN params : i # j => params[i].arg # params[j].arg
    /\ Len(OfKind(params, "vararg")) <= 1
    /\ Len(OfKind(params, "kwarg")) <= 1

NoComment == [present |-> FALSE, argtypes |-> <<>>]

TypeComment(argtypes) == [present |-> TRUE, argtypes |-> argtypes]

\* ast.FunctionDef with what the visitors pass beside it: whether it sits in a
\* class body, whether it is nested, and ReturnVisitor's has_only_none_returns
FunctionDef(name, decorator_list, params, returns, type_comment, is_class_method, is_nested, has_only_none_returns) ==
    [name |-> name,
     decorator_list |-> decorator_list,
     args |-> arguments(params),
     returns |-> returns,
     type_comment |-> type_comment,
     is_class_method |-> is_class_method,
     is_nested |-> is_nested,
     has_only_none_returns |-> has_only_none_returns]

_DEFAULT_DISPATCH_DECORATORS == {"singledispatch", "singledispatchmethod"}

_DEFAULT_OVERLOAD_DECORATORS == {"overload"}

\* the defaults of add_options
DefaultConfig ==
    [suppress_none_returning |-> FALSE,
     suppress_dummy_args |-> FALSE,
     allow_untyped_defs |-> FALSE,
     allow_untyped_nested |-> FALSE,
     mypy_init_return |-> FALSE,
     dispatch_decorators |-> _DEFAULT_DISPATCH_DECORATORS,
     overload_decorators |-> _DEFAULT_OVERLOAD_DECORATORS]

f == <<"f">>

g == <<"g">>

\* Files of up to MaxSeries functions: two names, overload / dispatch / no
\* decorator, one parameter annotated or not
SeriesNodes ==
    {FunctionDef(name, decorator_list, <<Param("a", "args", annotation, FALSE)>>,
                 FALSE, NoComment, FALSE, FALSE, TRUE) :
        name \in {f, g},
        decorator_list \in {<<>>, <<Name("overload")>>, <<Name("singledispatch")>>},
        annotation \in BOOLEAN}

SeriesConfigs ==
    {[DefaultConfig EXCEPT !.allow_untyped_defs = b] : b \in BOOLEAN}

\* Files of up to MaxPair functions whose parameter and return styles vary
PairNodes ==
    {FunctionDef(name, decorator_list,
                 <<Param("a", "args", style[1], style[2])>>,
                 returns, NoComment, FALSE, FALSE, TRUE) :
        name \in {f, g},
        decorator_list \in {<<>>, <<Attribute("typing", "overload")>>},
        style \in {<<FALSE, FALSE>>, <<TRUE, FALSE>>, <<FALSE, TRUE>>},
        returns \in BOOLEAN}

\* One function whose annotation styles and function-level comment vary
StyleParams ==
    {q \in SeqsUpTo({Param(arg, "args", a, c) :
                        arg \in {"a", "b", "c"}, a \in BOOLEAN, c \in BOOLEAN},
                    MaxStyleParams) :
        \A i \in DOMAIN q : q[i].arg = <<"a", "b", "c", "d">>[i]}

StyleComments ==
    {NoComment} \cup {TypeComment(h) : h \in SeqsUpTo({Hint, Ellipsis}, MaxHints)}

StyleNodes ==
    {FunctionDef(f, m[2], params, returns, type_comment, m[1], FALSE, TRUE) :
        m \in {<<FALSE, <<>> >>, <<TRUE, <<>> >>,
               <<TRUE, <<Name("classmethod")>> >>,
               <<TRUE, <<Name("staticmethod")>> >>,
               <<FALSE, <<Name("staticmethod")>> >>},
        params \in StyleParams,
        returns \in BOOLEAN,
        type_comment \in StyleComments}

\* One function under the per-position suppress options
SuppressParams ==
    {q \in SeqsUpTo({Param(arg, kind, a, FALSE) :
                        arg \in {"_", "a", "b"},
                        kind \in {"args", "vararg", "kwarg"},
                        a \in BOOLEAN},
                    MaxSuppressParams) : ValidParams(q)}

SuppressNodes ==
    {FunctionDef(name, m[2], params, returns, NoComment, m[1], FALSE, only_none) :
        name \in {f, __init__},
        m \in {<<FALSE, <<>> >>, <<TRUE, <<>> >>, <<TRUE, <<Name("classmethod")>> >>},
        params \in SuppressParams,
        returns \in BOOLEAN,
        only_none \in BOOLEAN}

SuppressConfigs ==
    {[DefaultConfig EXCEPT !.suppress_none_returning = n,
                           !.suppress_dummy_args = d,
                           !.mypy_init_return = i,
                           !.allow_untyped_defs = u] :
        n \in BOOLEAN, d \in BOOLEAN, i \in BOOLEAN, u \in BOOLEAN}

\* One function whose decorators and nesting vary, under the allow-untyped
\* options and two choices of the decorator sets
DecoratorLists ==
    {<<>>,
     <<Name("singledispatch")>>,
     <<Name("dispatch")>>,
     <<Name("overload")>>,
     <<Name("other")>>,
     <<Attribute("functools", "singledispatchmethod")>>,
     <<Attribute("singledispatch", "register")>>,
     <<Call(Name("singledispatch"))>>,
     <<Call(Call(Attribute("functools", "singledispatch")))>>,
     <<Call(Name("other"))>>,
     <<Subscript>>,
     <<Name("other"), Name("singledispatch")>>,
     <<Name("singledispatch"), Name("other")>>,
     <<Name("other"), Name("overload")>>,
     <<Name("staticmethod"), Name("singledispatch")>>,
     <<Name("classmethod")>>,
     <<Name("other"), Name("classmethod")>>,
     <<Name("staticmethod"), Name("classmethod")>>,
     <<Attribute("abc", "staticmethod")>>,
     <<Call(Name("classmethod"))>>}

DecoratorNodes ==
    {FunctionDef(f, decorator_list, <<Param("a", "args", annotation, FALSE)>>,
                 returns, NoComment, is_class_method, is_nested, TRUE) :
        decorator_list \in DecoratorLists,
        annotation \in BOOLEAN,
        returns \in BOOLEAN,
        is_class_method \in BOOLEAN,
        is_nested \in BOOLEAN}

DecoratorConfigs ==
    {[DefaultConfig EXCEPT !.allow_untyped_defs = d,
                           !.allow_untyped_nested = n,
                           !.dispatch_decorators = s[1],
                           !.overload_decorators = s[2]] :
        d \in BOOLEAN, n \in BOOLEAN,
        s \in {<<_DEFAULT_DISPATCH_DECORATORS, _DEFAULT_OVERLOAD_DECORATORS>>,
               <<{"dispatch"}, {"other"}>>,
               <<{"overload"}, {"overload"}>>}}

\* the (file, configuration) pairs a run starts from
Scenario(t, c) ==
    \/ t \in SeqsUpTo(SeriesNodes, MaxSeries) /\ c \in SeriesConfigs
    \/ t \in SeqsUpTo(PairNodes, MaxPair) /\ c \in SeriesConfigs
    \/ t \in {<<n>> : n \in StyleNodes} /\ c = DefaultConfig
    \/ t \in {<<n>> : n \in SuppressNodes} /\ c \in SuppressConfigs
    \/ t \in {<<n>> : n \in DecoratorNodes} /\ c \in DecoratorConfigs

-----------------------------------------------------------------------------
(* The state machine of one run() *)

\* Functions constructed directly, over every member of the enums, with one
\* of their arguments: what classify_error may be handed
ProbeArgs ==
    {[i \in DOMAIN kinds |-> Argument(<<"a", "b", "c">>[i], kinds[i])] :
        kinds \in SeqsUpTo(AnnotationTypes, MaxProbeParams)}

Probes ==
    {[function |-> Function(f, function_type, is_class_method, class_decorator_type,
                            FALSE, FALSE, TRUE, FALSE, <<>>,
                            Append(params, Argument("return", "RETURN"))),
      arg |-> arg] :
        function_type \in FunctionTypes,
        is_class_method \in BOOLEAN,
        class_decorator_type \in ClassDecoratorTypes \cup {NoDecoratorType},
        params \in ProbeArgs,
        arg \in 1..(MaxProbeParams + 1)}

NoProbe == [function |-> None, arg |-> 0]

Init ==
    /\ Scenario(tree, config)
    /\ function_definitions = <<>>
    /\ idx = 0
    /\ last_overload_decorated_function_name = None
    /\ errors = <<>>
    /\ path = <<>>
    /\ probe = NoProbe
    /\ classified = "None"
    /\ finished = <<>>
    /\ matched = <<>>

\* faulty variant: the name is kept on the class and outlives the run
InitialOverloadName_Kept(previous) == previous

\* line 69: a local of run(), whatever an earlier run left behind
InitialOverloadName(previous) == None

\* lines 63-69: the visitor builds every Function, then the loop starts
Visit ==
    /\ idx = 0
    /\ probe = NoProbe
    /\ function_definitions' = [k \in DOMAIN tree |-> from_function_node(tree[k])]
    /\ last_overload_decorated_function_name' =
          InitialOverloadName(last_overload_decorated_function_name)
    /\ idx' = 1
    /\ UNCHANGED <<tree, config, errors, path, probe, classified, finished, matched>>

InLoop == idx >= 1 /\ idx <= Len(function_definitions)

Done == idx >= 1 /\ idx = Len(function_definitions) + 1

\* faulty variant: the overload decorator is looked at before the skip
SkipUntyped_StoresName ==
    /\ InLoop
    /\ SkipsUntyped(function_definitions[idx], config)
    /\ last_overload_decorated_function_name' =
          NextOverloadName(function_definitions[idx], config,
                           last_overload_decorated_function_name)
    /\ idx' = idx + 1
    /\ path' = Append(path, "untyped")
    /\ UNCHANGED <<tree, config, function_definitions, errors, probe, classified,
                   finished, matched>>

\* lines 76-82: continue
SkipUntyped ==
    /\ InLoop
    /\ SkipsUntyped(function_definitions[idx], config)
    /\ idx' = idx + 1
    /\ path' = Append(path, "untyped")
    /\ UNCHANGED <<tree, config, function_definitions,
                   last_overload_decorated_function_name, errors, probe, classified, finished, matched>>

\* lines 86-87: continue
SkipDispatch ==
    /\ InLoop
    /\ ~SkipsUntyped(function_definitions[idx], config)
    /\ SkipsDispatch(function_definitions[idx], config)
    /\ idx' = idx + 1
    /\ path' = Append(path, "dispatch")
    /\ UNCHANGED <<tree, config, function_definitions,
                   last_overload_decorated_function_name, errors, probe, classified, finished, matched>>

\* lines 89-114: the mixed-style scan, then continue
CloseOverload ==
    /\ InLoop
    /\ ~SkipsUntyped(function_definitions[idx], config)
    /\ ~SkipsDispatch(function_definitions[idx], config)
    /\ ClosesOverload(function_definitions[idx], last_overload_decorated_function_name)
    /\ errors' = errors \o MixedErrors(function_definitions[idx], idx)
    /\ idx' = idx + 1
    /\ path' = Append(path, "overload")
    /\ UNCHANGED <<tree, config, function_definitions,
                   last_overload_decorated_function_name, probe, classified, finished, matched>>

\* lines 89-143: the mixed-style scan, the overload step, the missed arguments
YieldErrors ==
    /\ InLoop
    /\ ~SkipsUntyped(function_definitions[idx], config)
    /\ ~SkipsDispatch(function_definitions[idx], config)
    /\ ~ClosesOverload(function_definitions[idx], last_overload_decorated_function_name)
    /\ last_overload_decorated_function_name' =
          NextOverloadName(function_definitions[idx], config,
                           last_overload_decorated_function_name)
    /\ errors' = errors \o MixedErrors(function_definitions[idx], idx)
                        \o MissingErrors(function_definitions[idx], idx, config)
    /\ idx' = idx + 1
    /\ path' = Append(path, "yield")
    /\ UNCHANGED <<tree, config, function_definitions, probe, classified, finished, matched>>

\* checker.py lines 248-274, on a directly constructed Function
Classify ==
    /\ probe # NoProbe
    /\ classified = "None"
    /\ classified' = classify_error(probe.function, probe.arg)
    /\ UNCHANGED <<tree, config, function_definitions, idx,
                   last_overload_decorated_function_name, errors, path, probe,
                   finished, matched>>

Next == Visit \/ SkipUntyped \/ SkipDispatch \/ CloseOverload \/ YieldErrors

Spec == Init /\ [][Next]_vars

InitClassify ==
    /\ tree = <<>>
    /\ config = DefaultConfig
    /\ function_definitions = <<>>
    /\ idx = 0
    /\ last_overload_decorated_function_name = None
    /\ errors = <<>>
    /\ path = <<>>
    /\ probe \in {p \in Probes : p.arg <= Len(p.function.args)}
    /\ classified = "None"
    /\ finished = <<>>
    /\ matched = <<>>

SpecClassify == InitClassify /\ [][Classify]_vars

DecoratorNames == {"overload", "other"}

RECURSIVE Expressions(_)
\* the decorator expressions nested up to depth: names, attribute accesses
\* on and calls of shallower expressions, and a shape of another kind
Expressions(depth) ==
    IF depth = 0 THEN {Name(id) : id \in DecoratorNames} \cup {Subscript}
    ELSE LET inner == Expressions(depth - 1)
         IN  inner \cup {Call(func) : func \in inner}
                   \cup {Attribute(value, attr) : value \in inner, attr \in DecoratorNames}

CandidateSets == {{}, {"overload"}, {"overload", "other"}}

InitDecorator ==
    /\ tree = <<>>
    /\ config = DefaultConfig
    /\ function_definitions = <<>>
    /\ idx = 0
    /\ last_overload_decorated_function_name = None
    /\ errors = <<>>
    /\ path = <<>>
    /\ probe \in [decorator : Expressions(MaxDecoratorDepth),
                  check_decorators : CandidateSets]
    /\ classified = "None"
    /\ finished = <<>>
    /\ matched = <<>>

\* models.py lines 192-219, on a decorator expression and a set of names
MatchDecorator ==
    /\ matched = <<>>
    /\ matched' = <<_decorator_checker(probe.decorator, probe.check_decorators)>>
    /\ UNCHANGED <<tree, config, function_definitions, idx,
                   last_overload_decorated_function_name, errors, path, probe,
                   classified, finished>>

SpecDecorator == InitDecorator /\ [][MatchDecorator]_vars

\* Files of one flake8 invocation: two names, overload / dispatch / no
\* decorator, one unannotated parameter
RerunNodes ==
    {FunctionDef(name, decorator_list, <<Param("a", "args", FALSE, FALSE)>>,
                 FALSE, NoComment, FALSE, FALSE, TRUE) :
        name \in {f, g},
        decorator_list \in {<<>>, <<Name("overload")>>, <<Name("singledispatch")>>}}

RerunFiles == SeqsUpTo(RerunNodes, MaxRerun)

OtherFiles == SeqsUpTo(RerunNodes, MaxOther)

InitRerun ==
    /\ tree \in RerunFiles
    /\ config \in SeriesConfigs
    /\ function_definitions = <<>>
    /\ idx = 0
    /\ last_overload_decorated_function_name = None
    /\ errors = <<>>
    /\ path = <<>>
    /\ probe = NoProbe
    /\ classified = "None"
    /\ finished = <<>>
    /\ matched = <<>>

Finish == Append(finished, [tree |-> tree, errors |-> errors])

\* lines 41-54: flake8 makes a checker for another file, with the options it
\* set on the class; nothing of the plugin is reset in between
NextFile ==
    /\ Done
    /\ finished = <<>>
    /\ finished' = Finish
    /\ tree' \in OtherFiles
    /\ function_definitions' = <<>>
    /\ idx' = 0
    /\ errors' = <<>>
    /\ path' = <<>>
    /\ UNCHANGED <<config, last_overload_decorated_function_name, probe, classified,
                   matched>>

\* lines 41-54: flake8 makes a checker for the first file again, directly or
\* after one other file
FirstFileAgain ==
    /\ Done
    /\ Len(finished) <= 1
    /\ finished' = Finish
    /\ tree' = Head(Finish).tree
    /\ function_definitions' = <<>>
    /\ idx' = 0
    /\ errors' = <<>>
    /\ path' = <<>>
    /\ UNCHANGED <<config, last_overload_decorated_function_name, probe, classified,
                   matched>>

NextRerun == Next \/ NextFile \/ FirstFileAgain

SpecRerun == InitRerun /\ [][NextRerun]_vars

-----------------------------------------------------------------------------
(* Vocabulary of the properties *)

\* the functions whose loop iteration is over
Processed == 1..(idx - 1)

\* the positions of a function that carry no annotation
Unannotated(function) ==
    {i \in DOMAIN function.args : ~function.args[i].has_type_annotation}

Annotated(function) == DOMAIN function.args \ Unannotated(function)

ReturnSlot(function) == Len(function.args)

Parameters(function) == 1..(Len(function.args) - 1)

ErrorsOf(k) == SelectSeq(errors, LAMBDA e : e.fn = k)

\* the ANN0xx / ANN1xx / ANN2xx diagnostics yielded for function k
MissingOf(k) == SelectSeq(errors, LAMBDA e : e.fn = k /\ e.code # "ANN301")

MixedOf(k) == SelectSeq(errors, LAMBDA e : e.fn = k /\ e.code = "ANN301")

ReportedPositions(k) == {MissingOf(k)[n].arg : n \in DOMAIN MissingOf(k)}

NoSuppressOption ==
    /\ ~config.suppress_none_returning
    /\ ~config.suppress_dummy_args
    /\ ~config.mypy_init_return

MatchesOverload(function) == has_decorator(function, config.overload_decorators)

\* functions k, k+1, k+2 share a name, the first two match the overload
\* decorators and the third does not, and all three have been processed
OverloadTriple(k) ==
    /\ k + 2 \in Processed
    /\ function_definitions[k].name = function_definitions[k + 1].name
    /\ function_definitions[k].name = function_definitions[k + 2].name
    /\ MatchesOverload(function_definitions[k])
    /\ MatchesOverload(function_definitions[k + 1])
    /\ ~MatchesOverload(function_definitions[k + 2])

-----------------------------------------------------------------------------
(* C1 *)

\* C1 as stated: of three consecutive same-named functions of which the first
\* two match the overload decorators and the third does not, the first and
\* the second yield no missing-annotation diagnostic.
C1_FirstTwoSilent ==
    \A k \in Processed :
        OverloadTriple(k) => MissingOf(k) = <<>> /\ MissingOf(k + 1) = <<>>

\* C1 amended: when the first of the three reaches the overload step, it is
\* the second and the third function that yield no missing-annotation
\* diagnostic; the first, unless a pending name already closed it, has its
\* unannotated positions reported (every one of them when no suppress option
\* is set).
C1_OpenerReports ==
    \A k \in Processed :
        (OverloadTriple(k) /\ path[k] \in {"overload", "yield"}) =>
            /\ MissingOf(k + 1) = <<>>
            /\ MissingOf(k + 2) = <<>>
            /\ (path[k] = "yield" /\ NoSuppressOption) =>
                   ReportedPositions(k) = Unannotated(function_definitions[k])

\* a processed triple whose first function was reported and whose third,
\* though unannotated in places, was not
C1_Witness ==
    \E k \in Processed :
        /\ OverloadTriple(k)
        /\ path[k] = "yield"
        /\ MissingOf(k) # <<>>
        /\ path[k + 2] = "overload"
        /\ Unannotated(function_definitions[k + 2]) # {}
        /\ MissingOf(k + 2) = <<>>

-----------------------------------------------------------------------------
(* C2 *)

\* the diagnostics the step being taken adds
Added == SubSeq(errors', Len(errors) + 1, Len(errors'))

AddedMissing == SelectSeq(Added, LAMBDA e : e.code # "ANN301")

\* the step being taken is the iteration of a function that reaches the
\* overload step
ReachesOverloadStep ==
    /\ idx >= 1
    /\ idx' = idx + 1
    /\ path'[idx] \in {"overload", "yield"}

\* C2: an iteration that reaches the overload step with the pending name equal
\* to the function's name yields no missing-annotation diagnostic and leaves
\* the pending name alone; otherwise a function that matches the overload
\* decorators becomes the pending name and its own unannotated positions are
\* still yielded (all of them when no suppress option is set), and any other
\* function leaves the pending name alone.
C2_OverloadStep ==
    [][ReachesOverloadStep =>
          LET function == function_definitions[idx]
              pending == last_overload_decorated_function_name
              reported == {AddedMissing[n].arg : n \in DOMAIN AddedMissing}
          IN  IF pending = function.name
              THEN /\ AddedMissing = <<>>
                   /\ last_overload_decorated_function_name' = pending
              ELSE /\ reported \subseteq Unannotated(function)
                   /\ NoSuppressOption => reported = Unannotated(function)
                   /\ \A n \in DOMAIN AddedMissing : AddedMissing[n].fn = idx
                   /\ last_overload_decorated_function_name' =
                         IF MatchesOverload(function) THEN function.name ELSE pending
       ]_vars

\* an overload-decorated function with unannotated positions was reported and
\* set the pending name, and the next function of that name was closed by it
C2_Witness ==
    \E k \in Processed :
        /\ k + 1 \in Processed
        /\ path[k] = "yield"
        /\ MatchesOverload(function_definitions[k])
        /\ MissingOf(k) # <<>>
        /\ path[k + 1] = "overload"
        /\ Unannotated(function_definitions[k + 1]) # {}
        /\ last_overload_decorated_function_name = function_definitions[k].name

-----------------------------------------------------------------------------
(* C3 *)

\* among the function-level comment flag and the annotated positions there
\* is a comment-style and an inline-style annotation
MixesStyles(function) ==
    /\ \/ function.has_type_comment
       \/ \E i \in Annotated(function) : function.args[i].has_type_comment
    /\ \E i \in Annotated(function) : function.args[i].has_3107_annotation

\* C3: a function not skipped by the untyped or dispatch rules yields ANN301
\* once if it mixes comment-style and inline-style annotations and never
\* otherwise; with ANN301 yielded, the overload step still runs (the function
\* is closed by a pending name, or becomes the pending name if it matches the
\* overload decorators) and its unannotated positions are still yielded.
C3_MixedOnce ==
    \A k \in Processed :
        LET function == function_definitions[k]
        IN  path[k] \in {"overload", "yield"} =>
              /\ Len(MixedOf(k)) = IF MixesStyles(function) THEN 1 ELSE 0
              /\ (MixesStyles(function) /\ path[k] = "yield") =>
                    /\ ReportedPositions(k) \subseteq Unannotated(function)
                    /\ NoSuppressOption =>
                          ReportedPositions(k) = Unannotated(function)
                    /\ (k = idx - 1 /\ MatchesOverload(function)) =>
                          last_overload_decorated_function_name = function.name

\* a function annotated in both styles at more than two positions, with a
\* position left unannotated, yielded one ANN301 and its missing position
C3_Witness ==
    \E k \in Processed :
        LET function == function_definitions[k]
        IN  /\ path[k] = "yield"
            /\ function.has_type_comment
            /\ Cardinality({i \in Annotated(function) :
                               function.args[i].has_3107_annotation}) >= 2
            /\ Len(MixedOf(k)) = 1
            /\ MissingOf(k) # <<>>

-----------------------------------------------------------------------------
(* C4 *)

\* the number of parameters the node lists before those of its k-th field
FieldBase(node, k) ==
    LET lens == [m \in 1..(k - 1) |-> Len(ArgNodes(node, AST_ARG_TYPES[m]))]
    IN  Len(Flatten([m \in DOMAIN lens |-> [n \in 1..lens[m] |-> n]]))

\* the node written with inline annotations: the parameter at position
\* i + offset carries an annotation where hint slot i is a real hint, the
\* return is annotated, and there is no function-level comment
InlineField(node, k, offset) ==
    LET nodes == ArgNodes(node, AST_ARG_TYPES[k])
        argtypes == node.type_comment.argtypes
    IN  [j \in DOMAIN nodes |->
            LET slot == FieldBase(node, k) + j - offset
            IN  [nodes[j] EXCEPT !.annotation =
                    @ \/ (slot \in DOMAIN argtypes /\ argtypes[slot] = Hint)]]

InlineEquivalent(node, offset) ==
    [node EXCEPT !.args = [posonlyargs |-> InlineField(node, 1, offset),
                           args |-> InlineField(node, 2, offset),
                           vararg |-> InlineField(node, 3, offset),
                           kwonlyargs |-> InlineField(node, 4, offset),
                           kwarg |-> InlineField(node, 5, offset)],
                 !.returns = TRUE,
                 !.type_comment = NoComment]

AnnotationFlags(function) ==
    [i \in DOMAIN function.args |-> function.args[i].has_type_annotation]

\* the node is a method other than a staticmethod whose function-level
\* comment has fewer hint slots than the method has parameters
ReceiverOmitted(node, function) ==
    /\ node.type_comment.present
    /\ function.is_class_method
    /\ function.class_decorator_type # "STATICMETHOD"
    /\ Len(node.type_comment.argtypes) < Len(function.args) - 1

\* C4: a method other than a staticmethod whose function-level comment has
\* fewer hint slots than it has parameters gets its hints from the second
\* parameter on (the comment leaves the receiver alone), so that every
\* position's has_type_annotation, and with it the missing-annotation
\* diagnostics, are those of the same method annotated inline; a non-method
\* or a staticmethod gets its hints from the first parameter on.
C4_CommentAlignsAsInline ==
    \A k \in DOMAIN function_definitions :
        LET node == tree[k]
            function == function_definitions[k]
            offset == IF ReceiverOmitted(node, function) THEN 1 ELSE 0
            inline == from_function_node(InlineEquivalent(node, offset))
        IN  (/\ node.type_comment.present
             /\ \/ ReceiverOmitted(node, function)
                \/ ~function.is_class_method
                \/ function.class_decorator_type = "STATICMETHOD") =>
                /\ AnnotationFlags(function) = AnnotationFlags(inline)
                /\ ReceiverOmitted(node, function) =>
                      function.args[1].has_type_comment
                          = inline.args[1].has_type_comment
                /\ (k \in Processed /\ path[k] = "yield") =>
                      MissingOf(k) = MissingErrors(inline, k, config)

\* a method (self, a) with the comment (hint) -> hint was reported for self alone
C4_Witness ==
    \E k \in Processed :
        LET function == function_definitions[k]
        IN  /\ ReceiverOmitted(tree[k], function)
            /\ tree[k].type_comment.argtypes = <<Hint>>
            /\ Len(function.args) = 3
            /\ ~function.args[1].has_type_annotation
            /\ function.args[2].has_type_annotation
            /\ function.args[2].has_type_comment
            /\ path[k] = "yield"
            /\ ReportedPositions(k) = {1}

-----------------------------------------------------------------------------
(* C5 *)

UntypedRule(function) ==
    /\ Unannotated(function) = DOMAIN function.args
    /\ \/ config.allow_untyped_defs
       \/ function.is_nested /\ config.allow_untyped_nested

\* C5: is_dynamically_typed() is true exactly of the functions with no
\* annotated position; such a function yields no diagnostic when
\* allow_untyped_defs is set, nor when it is nested and allow_untyped_nested
\* is set; a function with an annotated position is never skipped by either
\* option.
C5_UntypedSkipped ==
    \A k \in Processed :
        LET function == function_definitions[k]
        IN  /\ is_dynamically_typed(function)
                <=> (Unannotated(function) = DOMAIN function.args)
            /\ UntypedRule(function) => ErrorsOf(k) = <<>> /\ path[k] = "untyped"
            /\ Annotated(function) # {} => path[k] # "untyped"

\* a nested function without annotations was skipped under
\* allow_untyped_nested alone, though it has positions to report
C5_Witness ==
    \E k \in Processed :
        /\ path[k] = "untyped"
        /\ function_definitions[k].is_nested
        /\ ~config.allow_untyped_defs
        /\ config.allow_untyped_nested
        /\ function_definitions[k].decorator_list = <<>>
        /\ ErrorsOf(k) = <<>>

-----------------------------------------------------------------------------
(* C6 *)

\* the first decorator, and no other, matches the set
FirstDecoratorMatches(function, check_decorators) ==
    /\ function.decorator_list # <<>>
    /\ _decorator_checker(Head(function.decorator_list), check_decorators)

-----------------------------------------------------------------------------
(* C7 *)

ByFunctionType(function_type) ==
    CASE function_type = "SPECIAL" -> "ANN204"
      [] function_type = "PRIVATE" -> "ANN203"
      [] function_type = "PROTECTED" -> "ANN202"
      [] function_type = "PUBLIC" -> "ANN201"

\* classify_error has classified the return slot of the probe
ReturnClassified ==
    /\ classified # "None"
    /\ probe.function.args[probe.arg].argname = "return"

-----------------------------------------------------------------------------
(* C8 *)

ArgumentClassified ==
    /\ classified # "None"
    /\ probe.function.args[probe.arg].argname # "return"

\* C8: the code of an argument is ANN102 (CLASSMETHOD) or ANN101 (otherwise)
\* when it is the first entry of the argument list of a method that is not a
\* staticmethod, whatever its annotation_type; in every other case it is
\* ANN003 for KWARG, ANN002 for VARARG and ANN001 for the other kinds.
C8_ArgumentCode ==
    ArgumentClassified =>
        LET function == probe.function
            annotation_type == function.args[probe.arg].annotation_type
        IN  classified =
                IF /\ function.is_class_method
                   /\ probe.arg = 1
                   /\ function.class_decorator_type # "STATICMETHOD"
                THEN IF function.class_decorator_type = "CLASSMETHOD"
                     THEN "ANN102" ELSE "ANN101"
                ELSE CASE annotation_type = "KWARG" -> "ANN003"
                       [] annotation_type = "VARARG" -> "ANN002"
                       [] annotation_type \in {"POSONLYARGS", "ARGS", "KWONLYARGS", "RETURN"}
                             -> "ANN001"

\* the first of two **kwargs-kind arguments of an instance method was
\* classified as the receiver
C8_Witness ==
    /\ ArgumentClassified
    /\ probe.function.is_class_method
    /\ probe.function.class_decorator_type = NoDecoratorType
    /\ probe.arg = 1
    /\ Len(probe.function.args) = 3
    /\ probe.function.args[1].annotation_type = "KWARG"
    /\ probe.function.args[2].annotation_type = "KWARG"
    /\ classified = "ANN101"

-----------------------------------------------------------------------------
(* C9 *)

ReturnReported(k) == ReturnSlot(function_definitions[k]) \in ReportedPositions(k)

IsInitMethod(function) == function.is_class_method /\ function.name = __init__

NoneReturningApplies(function) ==
    config.suppress_none_returning /\ function.has_only_none_returns

DummyApplies(function, i) ==
    config.suppress_dummy_args /\ function.args[i].argname = "_"

\* C9: under mypy_init_return a method named __init__ with an unannotated
\* return and an annotated parameter yields no return diagnostic; a function
\* that reaches the missing-annotation step with an unannotated return and is
\* not a method, or not named __init__, or has no annotated position, still
\* yields it unless the none-returning rule applies; and whatever the option,
\* every unannotated parameter is yielded unless the dummy rule applies.
C9_InitReturn ==
    \A k \in Processed :
        LET function == function_definitions[k]
            missing == ReturnSlot(function) \in Unannotated(function)
        IN  /\ (/\ config.mypy_init_return
                /\ IsInitMethod(function)
                /\ missing
                /\ Annotated(function) # {}) => ~ReturnReported(k)
            /\ (/\ config.mypy_init_return
                /\ path[k] = "yield"
                /\ missing
                /\ ~IsInitMethod(function) \/ Annotated(function) = {}
                /\ ~NoneReturningApplies(function)) => ReturnReported(k)
            /\ path[k] = "yield" =>
                  \A i \in Parameters(function) \cap Unannotated(function) :
                      ~DummyApplies(function, i) => i \in ReportedPositions(k)

\* an __init__ method with one annotated and one unannotated parameter, its
\* return not excused by the none-returning rule, was reported for the
\* parameter alone
C9_Witness ==
    \E k \in Processed :
        LET function == function_definitions[k]
        IN  /\ config.mypy_init_return
            /\ IsInitMethod(function)
            /\ ~NoneReturningApplies(function)
            /\ path[k] = "yield"
            /\ ReturnSlot(function) \in Unannotated(function)
            /\ Annotated(function) # {}
            /\ ReportedPositions(k) # {}
            /\ ~ReturnReported(k)

-----------------------------------------------------------------------------
(* C10 *)

Dummies(function) == {i \in Parameters(function) : function.args[i].argname = "_"}

CodeAt(k, i) == {MissingOf(k)[n].code : n \in {m \in DOMAIN MissingOf(k) : MissingOf(k)[m].arg = i}}

\* C10: under suppress_dummy_args no parameter named _ is reported, whatever
\* its kind and also as the first parameter of a method; without the option
\* an unannotated parameter named _ of a function that reaches the
\* missing-annotation step is reported with the code of its classification;
\* the other unannotated parameters are reported under either setting.
C10_DummyArgs ==
    \A k \in Processed :
        LET function == function_definitions[k]
        IN  /\ config.suppress_dummy_args =>
                  Dummies(function) \cap ReportedPositions(k) = {}
            /\ path[k] = "yield" =>
                  /\ \A i \in (Parameters(function) \cap Unannotated(function))
                                  \ Dummies(function) :
                         i \in ReportedPositions(k)
                  /\ ~config.suppress_dummy_args =>
                        \A i \in Dummies(function) \cap Unannotated(function) :
                            CodeAt(k, i) = {classify_error(function, i)}

\* under suppress_dummy_args a method whose first parameter is an unannotated
\* *_ was reported for its second parameter and not for the first
C10_Witness ==
    \E k \in Processed :
        LET function == function_definitions[k]
        IN  /\ config.suppress_dummy_args
            /\ function.is_class_method
            /\ path[k] = "yield"
            /\ Len(function.args) = 3
            /\ 1 \in Dummies(function) \cap Unannotated(function)
            /\ function.args[1].annotation_type = "VARARG"
            /\ ReportedPositions(k) \cap Parameters(function) = {2}

-----------------------------------------------------------------------------
(* C11 *)

InitReturnApplies(function) ==
    /\ config.mypy_init_return
    /\ IsInitMethod(function)
    /\ Annotated(function) # {}

\* C11: under suppress_none_returning a function whose unannotated return is
\* its only kind of return (has_only_none_returns) yields no return
\* diagnostic, and its unannotated parameters are yielded all the same; when
\* has_only_none_returns is false or the option is off, a function that
\* reaches the missing-annotation step with an unannotated return yields the
\* return diagnostic of its classification, unless the init-return rule
\* applies.
C11_NoneReturning ==
    \A k \in Processed :
        LET function == function_definitions[k]
            return == ReturnSlot(function)
        IN  /\ NoneReturningApplies(function) => ~ReturnReported(k)
            /\ path[k] = "yield" =>
                  /\ \A i \in Parameters(function) \cap Unannotated(function) :
                         ~DummyApplies(function, i) => i \in ReportedPositions(k)
                  /\ (/\ return \in Unannotated(function)
                      /\ ~NoneReturningApplies(function)
                      /\ ~InitReturnApplies(function)) =>
                         CodeAt(k, return) = {classify_error(function, return)}

\* under suppress_none_returning a function with only None returns and two
\* unannotated parameters was reported for the parameters and not the return
C11_Witness ==
    \E k \in Processed :
        LET function == function_definitions[k]
        IN  /\ config.suppress_none_returning
            /\ function.has_only_none_returns
            /\ ~InitReturnApplies(function)
            /\ path[k] = "yield"
            /\ ReturnSlot(function) \in Unannotated(function)
            /\ ReportedPositions(k) = {1, 2}
            /\ Len(function.args) = 3

-----------------------------------------------------------------------------
(* C12 *)

Built == DOMAIN function_definitions

NamedReturn(function) ==
    {i \in DOMAIN function.args : function.args[i].argname = "return"}

\* C12: in every Function built from a definition node, each Argument, the
\* return slot included, has has_type_annotation exactly when it has
\* has_3107_annotation or has_type_comment; the last Argument is the only one
\* named return, and is_return_annotated equals its has_type_annotation.
C12_AnnotationFlags ==
    \A k \in Built :
        LET function == function_definitions[k]
            last == Len(function.args)
        IN  /\ \A i \in DOMAIN function.args :
                   function.args[i].has_type_annotation
                       = (function.args[i].has_3107_annotation
                              \/ function.args[i].has_type_comment)
            /\ NamedReturn(function) = {last}
            /\ function.is_return_annotated = function.args[last].has_type_annotation

\* a function whose type comment hinted a parameter that has no inline
\* annotation and so annotated the return, next to an unannotated parameter
C12_Witness ==
    \E k \in Built :
        LET function == function_definitions[k]
            last == Len(function.args)
        IN  /\ function.has_type_comment
            /\ function.is_return_annotated
            /\ ~function.args[last].has_3107_annotation
            /\ \E i \in Parameters(function) :
                   /\ function.args[i].has_type_comment
                   /\ ~function.args[i].has_3107_annotation
            /\ \E i \in Parameters(function) : ~function.args[i].has_type_annotation

-----------------------------------------------------------------------------
(* C13 *)

LoopStarts == idx = 1

EarlierRunsOf(t) == {j \in DOMAIN finished : finished[j].tree = t}

\* C13: every run enters its loop with last_overload_decorated_function_name
\* absent, and a finished run has yielded exactly the diagnostics that every
\* earlier run over the same functions (and options) yielded, whether that
\* run came directly before or another file was processed in between.
C13_RunsAlike ==
    /\ LoopStarts => last_overload_decorated_function_name = None
    /\ Done => \A j \in EarlierRunsOf(tree) : finished[j].errors = errors

\* the first file, whose first function is an undecorated f, was run, then a
\* file that ends on an overload-decorated f that stored its name, then the
\* first file again, which reported f both times
C13_Witness ==
    /\ Done
    /\ Len(finished) = 2
    /\ finished[1].tree = tree
    /\ finished[2].tree # tree
    /\ finished[2].tree = <<FunctionDef(f, <<Name("overload")>>,
                                        <<Param("a", "args", FALSE, FALSE)>>,
                                        FALSE, NoComment, FALSE, FALSE, TRUE)>>
    /\ finished[2].errors # <<>>
    /\ tree # <<>>
    /\ tree[1].name = f
    /\ tree[1].decorator_list = <<>>
    /\ path[1] = "yield"
    /\ errors # <<>>

-----------------------------------------------------------------------------
(* C14 *)

RECURSIVE OpenSeries(_)
\* the name of the overload series left open by the first k functions: the
\* most recent function that reached the overload step and matches the
\* overload decorators, unless a same-named definition that does not match
\* them has come after it
OpenSeries(k) ==
    IF k = 0 THEN None
    ELSE LET function == function_definitions[k]
             before == OpenSeries(k - 1)
         IN  IF path[k] \in {"untyped", "dispatch"} THEN before
             ELSE IF MatchesOverload(function) THEN function.name
             ELSE IF before = function.name THEN None
             ELSE before

\* C14: last_overload_decorated_function_name is absent or the name of the
\* most recent overload-decorated function not yet followed by a same-named
\* definition without the decorator; once that closing definition has been
\* processed the series is closed, and a later function of that name is
\* suppressed by the overload step only if a new series has been opened.
C14_SeriesCloses ==
    /\ idx >= 1 => last_overload_decorated_function_name = OpenSeries(idx - 1)
    /\ \A k \in Processed :
           path[k] = "overload" => OpenSeries(k - 1) = function_definitions[k].name

-----------------------------------------------------------------------------
(* C15 *)

RECURSIVE Callee(_)
\* the expression under every call of an expression
Callee(expression) ==
    IF expression.kind = "Call" THEN Callee(expression.func) ELSE expression

RECURSIVE CallDepth(_)
CallDepth(expression) ==
    IF expression.kind = "Call" THEN 1 + CallDepth(expression.func) ELSE 0

ShapeMatches(expression, names) ==
    LET callee == Callee(expression)
    IN  \/ callee.kind = "Name" /\ callee.id \in names
        \/ callee.kind = "Attribute" /\ callee.attr \in names

\* C15: _decorator_checker has a result for every decorator expression and
\* set of names, and the result is true exactly when the expression, under
\* calls nested to any depth, is a bare name of the set or an attribute
\* access whose last attribute is in the set, whatever it is accessed on;
\* every other shape gives false.
C15_MatchByShape ==
    /\ matched = <<>> => ENABLED MatchDecorator
    /\ matched # <<>> =>
           matched[1] = ShapeMatches(probe.decorator, probe.check_decorators)

\* a match under two nested calls of an attribute access whose last
\* attribute is in the set and whose prefix is not
C15_Witness ==
    /\ matched = <<TRUE>>
    /\ CallDepth(probe.decorator) = 2
    /\ Callee(probe.decorator) = Attribute(Name("other"), "overload")
    /\ probe.check_decorators = {"overload"}

-----------------------------------------------------------------------------
(* C16 *)

\* the hint slots the parameters are paired with: those of the comment, after
\* a placeholder for an omitted receiver
AlignedSlots(node, function) ==
    IF ReceiverOmitted(node, function)
    THEN <<Ellipsis>> \o node.type_comment.argtypes
    ELSE node.type_comment.argtypes

\* the Function the node gives when its function-level comment is left out
BeforeAlignment(node) == from_function_node([node EXCEPT !.type_comment = NoComment])

\* C16: for a function with a function-level type comment, a parameter paired
\* with a hint slot that is not an Ellipsis has has_type_annotation and
\* has_type_comment true; a parameter paired with an Ellipsis slot, or past
\* the last slot, has the flags it had without the comment; the return slot
\* has both flags true and is_return_annotated is true, whatever the slots.
C16_AlignmentResult ==
    \A k \in Built :
        LET node == tree[k]
            function == function_definitions[k]
            slots == AlignedSlots(node, function)
            before == BeforeAlignment(node)
            return == ReturnSlot(function)
        IN  node.type_comment.present =>
                /\ \A i \in Parameters(function) :
                       IF i \in DOMAIN slots /\ slots[i] # Ellipsis
                       THEN /\ function.args[i].has_type_annotation
                            /\ function.args[i].has_type_comment
                       ELSE function.args[i] = before.args[i]
                /\ function.args[return].has_type_annotation
                /\ function.args[return].has_type_comment
                /\ function.is_return_annotated

\* a function (a, b) with the comment (..., hint): a keeps having no
\* annotation, b is hinted, and the return is annotated by the comment alone
C16_Witness ==
    \E k \in Built :
        LET node == tree[k]
            function == function_definitions[k]
        IN  /\ node.type_comment.present
            /\ node.type_comment.argtypes = <<Ellipsis, Hint>>
            /\ ~function.is_class_method
            /\ Len(function.args) = 3
            /\ ~function.args[1].has_type_annotation
            /\ function.args[2].has_type_comment
            /\ ~function.args[2].has_3107_annotation
            /\ ~node.returns
            /\ function.is_return_annotated

-----------------------------------------------------------------------------
(* C17 *)

\* some decorator of the node, at any position, is the bare name
BareDecorator(node, id) ==
    \E i \in DOMAIN node.decorator_list : node.decorator_list[i] = Name(id)

\* C17: a Function built from a method node has class_decorator_type
\* CLASSMETHOD when one of its decorators is the bare name classmethod,
\* otherwise STATICMETHOD when one is the bare name staticmethod, otherwise
\* none, attribute accesses and calls never counting; a Function built from a
\* node that is not a method has none, whatever its decorators.
C17_ClassDecoratorType ==
    \A k \in Built :
        LET node == tree[k]
            function == function_definitions[k]
        IN  /\ function.is_class_method = node.is_class_method
            /\ function.class_decorator_type =
                  IF ~node.is_class_method THEN NoDecoratorType
                  ELSE IF BareDecorator(node, "classmethod") THEN "CLASSMETHOD"
                  ELSE IF BareDecorator(node, "staticmethod") THEN "STATICMETHOD"
                  ELSE NoDecoratorType

\* a method decorated with staticmethod and then classmethod was built as a
\* classmethod
C17_Witness ==
    \E k \in Built :
        /\ tree[k].is_class_method
        /\ tree[k].decorator_list = <<Name("staticmethod"), Name("classmethod")>>
        /\ function_definitions[k].class_decorator_type = "CLASSMETHOD"

-----------------------------------------------------------------------------
(* C18 *)

\* the step being taken is the iteration of a function that the untyped
\* rules or the dispatch rule skip
SkipStep ==
    /\ idx >= 1
    /\ idx' = idx + 1
    /\ path'[idx] \in {"untyped", "dispatch"}

\* the step being taken is the iteration of a function that comes right after
\* a skipped function of its name that matches the overload decorators, with
\* another name or none stored
AfterSkippedOverload ==
    /\ idx >= 2
    /\ idx' = idx + 1
    /\ path[idx - 1] \in {"untyped", "dispatch"}
    /\ MatchesOverload(function_definitions[idx - 1])
    /\ function_definitions[idx - 1].name = function_definitions[idx].name
    /\ last_overload_decorated_function_name # function_definitions[idx].name

\* C18: the iteration of a function skipped by the untyped rules or by the
\* dispatch rule leaves last_overload_decorated_function_name as it was, also
\* when the function matches the overload decorators; so the function that
\* follows a skipped overload-decorated function of its name, when that name
\* was not stored before, is not closed by the overload step, and if it is
\* not skipped itself its unannotated positions are yielded.
C18_SkipLeavesName ==
    [][/\ SkipStep =>
              last_overload_decorated_function_name'
                  = last_overload_decorated_function_name
       /\ AfterSkippedOverload =>
              LET function == function_definitions[idx]
                  reported == {AddedMissing[n].arg : n \in DOMAIN AddedMissing}
              IN  /\ path'[idx] # "overload"
                  /\ (path'[idx] = "yield" /\ NoSuppressOption) =>
                         reported = Unannotated(function)
      ]_vars

\* an overload-decorated f without annotations was skipped under
\* allow_untyped_defs and stored nothing, and the f after it was reported
C18_Witness ==
    \E k \in Processed :
        /\ k + 1 \in Processed
        /\ path[k] = "untyped"
        /\ MatchesOverload(function_definitions[k])
        /\ function_definitions[k].name = function_definitions[k + 1].name
        /\ ~MatchesOverload(function_definitions[k + 1])
        /\ path[k + 1] = "yield"
        /\ ReportedPositions(k + 1) = Unannotated(function_definitions[k + 1])
        /\ ReportedPositions(k + 1) # {}
        /\ (k + 1 = idx - 1 => last_overload_decorated_function_name = None)

=============================================================================
